---- MODULE Spec2Model ----
(***************************************************************************)
(* Model of src/index.tsx, trail variant (the PaperPlane component): the   *)
(* steering step, the particle ring buffer and the effect life cycle       *)
(* (mount, prop-change re-run, unmount) around the requestAnimationFrame   *)
(* loop.                                                                   *)
(*                                                                         *)
(* Numbers.  The program computes in IEEE doubles; the model computes in   *)
(* fixed point.  Lengths are integers in units of 1/Unit pixel, times are  *)
(* integers in milliseconds, the fade factor and the noise are in          *)
(* thousandths.  Divisions round toward zero.  Vectors are triples.        *)
(***************************************************************************)
EXTENDS Integers, Sequences, FiniteSets, TLC

\* Fixed-point resolution: length units per pixel.
Unit == 4 * 5

------------------------------------------------------------------------------
(* Bounds of the model *)

\* Capacity of the trail pool in the model (the program allocates 1000).
MAX_PARTICLES == 2
\* Effect runs (mount plus prop-change re-runs) explored.
MaxSessions == 2
\* Pointer-move events explored.
MaxMoves == 1
\* Display refreshes explored in a run of one effect run and one pointer move.
MaxRefreshes == 17
\* Display refreshes explored in the other runs.
BusyRefreshes == 4

------------------------------------------------------------------------------
(* Program constants *)

maxSpeed == 800
maxForce == 25
dampingPct == 98
slowingRadius == 300
maxDeltaMs == 100
tailOffsetZ == 15
planeScaleTenths == 18
noiseStrength == 350
minLifeMs == 1500
lifeSpanMs == 2000

\* Display refresh intervals of a run, in ms: the last one exceeds the clamp.
PeriodSet == {20, 100, 250}
\* Math.random() states at an effect run, in thousandths.
RandomSeeds == {0, 15}
\* Permutation tables of the noise field (shuffled once at module load).
NoiseSeeds == {3}
\* Pointer targets in pixels relative to the window centre.
TargetSet == {<<300, 400, 0>>, <<3, 4, 0>>}

------------------------------------------------------------------------------
(* Arithmetic and THREE.Vector3 *)

Min(a, b) == IF a < b THEN a ELSE b
Max(a, b) == IF a > b THEN a ELSE b
Abs(a) == IF a < 0 THEN -a ELSE a

\* a / b rounded toward zero.  Division by zero gives the IEEE result the
\* program would get: an infinity (here a value beyond every other one) or,
\* for 0 / 0, NaN (here a value no comparison "greater than" accepts).  The
\* zero-delta return keeps the program from ever dividing by zero.
Infinity == 2 * 1000 * 1000 * 1000
NaN == -Infinity - 1
DivT(a, b) ==
  IF b = 0 THEN (IF a = 0 THEN NaN ELSE IF a < 0 THEN -Infinity ELSE Infinity)
  ELSE IF (a < 0) = (b < 0) THEN Abs(a) \div Abs(b) ELSE -(Abs(a) \div Abs(b))

RECURSIVE SqrtSearch(_, _, _)
SqrtSearch(n, lo, hi) ==
  IF lo >= hi THEN lo
  ELSE LET mid == (lo + hi + 1) \div 2
       IN IF mid * mid <= n THEN SqrtSearch(n, mid, hi) ELSE SqrtSearch(n, lo, mid - 1)

\* Floor of the square root.
ISqrt(n) == SqrtSearch(n, 0, 46340)

Zero3 == <<0, 0, 0>>
Add(a, b) == <<a[1] + b[1], a[2] + b[2], a[3] + b[3]>>
Sub(a, b) == <<a[1] - b[1], a[2] - b[2], a[3] - b[3]>>
LengthSq(v) == v[1] * v[1] + v[2] * v[2] + v[3] * v[3]
Length(v) == ISqrt(LengthSq(v))

\* v.multiplyScalar(num / den)
ScaleRat(v, num, den) == <<DivT(v[1] * num, den), DivT(v[2] * num, den), DivT(v[3] * num, den)>>

\* v.normalize().multiplyScalar(len): normalize divides by (length() || 1),
\* so the zero vector stays the zero vector.
NormalizeScaled(v, len) ==
  LET l == Length(v) IN ScaleRat(v, len, IF l = 0 THEN 1 ELSE l)

\* v.clampLength(0, max)
ClampLength(v, max) ==
  IF LengthSq(v) <= max * max THEN v ELSE NormalizeScaled(v, max)

------------------------------------------------------------------------------
(* Steering (animate, "Physics: Steering Behavior (Arrival)") *)

\* Faulty variant: the arrival slow-down left out.
DesiredSpeed_Full(distance) == maxSpeed * Unit

\* Desired speed in length units per second for a target at `distance`.
DesiredSpeed(distance) ==
  IF distance < slowingRadius * Unit
  THEN DivT(maxSpeed * Unit * distance, slowingRadius * Unit)
  ELSE maxSpeed * Unit

\* _desiredVelocity after line 754: toward the target, desiredSpeed * delta long.
DesiredVelocity(position, target, delta) ==
  LET toTarget == Sub(target, position)
  IN NormalizeScaled(toTarget, DivT(DesiredSpeed(Length(toTarget)) * delta, 1000))

\* Faulty variant: the clampLength call left out.
SteeringForce_Unclamped(desired, velocity, delta) == Sub(desired, velocity)

\* _steeringForce after line 756.
SteeringForce(desired, velocity, delta) ==
  ClampLength(Sub(desired, velocity), DivT(maxForce * Unit * delta, 1000))

\* The plane after lines 757-761: velocity is the displacement of one frame.
Integrate(plane, force) ==
  LET acc == Add(plane.acceleration, force)
      vel == ScaleRat(Add(plane.velocity, acc), dampingPct, 100)
  IN [position |-> Add(plane.position, vel), velocity |-> vel, acceleration |-> Zero3]

------------------------------------------------------------------------------
(* Orientation (animate, "Update Meshes") *)

\* The orientation is kept as the unit look direction in thousandths (the
\* direction the nose points to); the roll about it, which leaves the tail
\* point where it is, is not represented.  The identity looks down -Z.
IdentityLook == <<0, 0, -1000>>

RECURSIVE Pow001(_)
\* 0.01 ^ (ms / 1000) in ten-thousandths.
Pow001(ms) ==
  IF ms <= 0 THEN 10000
  ELSE IF ms >= 10 THEN (Pow001(ms - 10) * 9550) \div 10000
  ELSE (Pow001(ms - 1) * 9954) \div 10000

\* planeGroup.quaternion.slerp(_targetQuat, 1 - 0.01^delta), as a normalised
\* linear blend of the two look directions.
Slerp(look, velocity, delta) ==
  LET keep == Pow001(delta)
      target == NormalizeScaled(velocity, 1000)
      blend == Add(ScaleRat(look, keep, 10000), ScaleRat(target, 10000 - keep, 10000))
  IN NormalizeScaled(blend, 1000)

\* The guard of line 767: |velocity|^2 > 0.01.
Turns(velocity) == LengthSq(velocity) * 100 > Unit * Unit

IdentityMatrix == [position |-> Zero3, look |-> IdentityLook, scaleTenths |-> 10]

\* _tailOffset.applyMatrix4(matrixWorld): the point 15 behind the nose
\* direction, scaled, from the matrix' position.
TailWorld(m) ==
  Add(m.position, ScaleRat(m.look, -((tailOffsetZ * Unit * m.scaleTenths) \div 10), 1000))

------------------------------------------------------------------------------
(* Particles *)

\* Faulty variant: a life time shorter than one clamped frame.
MaxLife_Short(seed, k) == maxDeltaMs \div 2

\* The k-th Math.random() * 2.0 + 1.5 of an effect run, in ms.
MaxLife(seed, k) == minLifeMs + ((2 * (seed + 15 * k)) % lifeSpanMs)

NewParticle(seed, k) ==
  [position |-> Zero3, velocity |-> Zero3, life |-> 0, maxLife |-> MaxLife(seed, k)]

\* The MAX_PARTICLES records pushed by lines 702-707.
Allocation(seed) == [k \in 1..MAX_PARTICLES |-> NewParticle(seed, k - 1)]

\* plane.velocity.length() / delta, in length units per second.
Speed(velocity, delta) == DivT(Length(velocity) * 1000, delta)

\* Faulty variant: the emission rate without its cap of 100.
EmitRate_Uncapped(speed) == speed \div 10 + 20 * Unit

\* min(speed / 10, 100) + 20 emissions per second, times Unit.
EmitRate(speed) == Min(speed \div 10, 100 * Unit) + 20 * Unit

\* Faulty variant: emission gated by the interval alone.
ShouldEmit_Ungated(hasMoved, speed, elapsedTime, lastEmitTime) ==
  (elapsedTime - lastEmitTime) * EmitRate(speed) > 1000 * Unit

\* The guard of line 796.
ShouldEmit(hasMoved, speed, elapsedTime, lastEmitTime) ==
  /\ hasMoved
  /\ speed > 10 * Unit
  /\ (elapsedTime - lastEmitTime) * EmitRate(speed) > 1000 * Unit

\* Faulty variant: the frame velocity scaled by -0.1, not divided by delta.
EmitVelocity_PerFrame(velocity, delta) == ScaleRat(velocity, -1, 10)

\* plane.velocity times -0.1 / delta (line 801).
EmitVelocity(velocity, delta) == ScaleRat(velocity, -100, delta)

\* Faulty variant: the cursor not advanced.
NextIndex_Stuck(particleIndex) == particleIndex

\* The cursor after line 803.
NextIndex(particleIndex) == (particleIndex + 1) % MAX_PARTICLES

\* The record written by lines 800-802.
EmittedParticle(p, tail, velocity, delta) ==
  [position |-> tail, velocity |-> EmitVelocity(velocity, delta),
   life |-> p.maxLife, maxLife |-> p.maxLife]

\* noise3D in thousandths.  The simplex lattice is replaced by a hash of the
\* cell of its arguments (given in thousandths) and the permutation seed;
\* like the original it is a fixed function of its arguments with values in
\* [-1, 1].
Noise3D(seed, x, y, z) ==
  (((seed + 7 * (x \div 500) + 13 * (y \div 500) + 5 * (z \div 500)) % 21) - 10) * 100

\* Faulty variant: the update loop without its life > 0 test.
Alive_Always(p) == TRUE

\* The guard of line 813.
Alive(p) == p.life > 0

\* Faulty variant: the fade factor without its lower clamp.
Fade_Unclamped(p) == DivT(p.life * 1000, p.maxLife)

\* Fade factor of line 815 and alpha of line 816, in thousandths.
Fade(p) == Max(0, DivT(p.life * 1000, p.maxLife))
Alpha(t) == (t * t) \div 1000

\* Faulty variant: life counted up.
AgeParticle_Growing(p, delta, elapsedTime, seed) == [p EXCEPT !.life = @ + delta]

\* One live particle after lines 814-822.
AgeParticle(p, delta, elapsedTime, seed) ==
  LET noiseTime == (elapsedTime * 4) \div 5
      px == (p.position[1] * 20) \div Unit
      py == (p.position[2] * 20) \div Unit
      nx == Noise3D(seed, px, py, noiseTime)
      ny == Noise3D(seed, py, px, noiseTime + 100 * 1000)
      force == <<nx * noiseStrength * Unit, ny * noiseStrength * Unit, 0>>
      vel == Add(p.velocity, ScaleRat(ScaleRat(force, 1, 1000), delta, 1000))
      pos == Add(p.position, ScaleRat(vel, delta, 1000))
  IN [position |-> pos,
      velocity |-> ScaleRat(vel, 2000 - 3 * delta, 2000),
      life |-> p.life - delta,
      maxLife |-> p.maxLife]

\* One slot after an iteration of the loop of lines 811-827.
UpdateParticle(p, delta, elapsedTime, seed) ==
  IF Alive(p) THEN AgeParticle(p, delta, elapsedTime, seed) ELSE p

------------------------------------------------------------------------------
(* State *)

VARIABLES
  state,      \* the useRef object: mouseTarget, plane, trailParticles, lastEmitTime, hasMoved
  noise,      \* permutation seed of state.noise
  scratch,    \* the useMemo vectors _desiredVelocity, _steeringForce, _worldTailPosition
  sessions,   \* one record per run of the effect: its closure variables
  rafQueue,   \* animate callbacks registered for the next display refresh
  runQueue,   \* animate callbacks of the refresh in progress, still to run
  now,        \* performance.now(), ms
  period,     \* display refresh interval of this run, ms
  moves,      \* pointer-move events dispatched so far
  frame,      \* the locals of the latest animate call, if the latest step made one
  instructionsVisible  \* PaperPlaneApp's useState value (line 14)

vars == <<state, noise, scratch, sessions, rafQueue, runQueue, now, period, moves, frame,
         instructionsVisible>>

NoParticle == NewParticle(0, 0)

\* No animate call in the latest step.
NoFrame ==
  [session |-> 0, delta |-> 0, elapsedTime |-> 0, distance |-> 0, desiredSpeed |-> 0,
   emitted |-> FALSE, slot |-> 0, particle |-> NoParticle, replaced |-> NoParticle,
   expired |-> {}]

\* Faulty variant: the target starts away from the plane.
InitState_TargetAway ==
  [mouseTarget |-> <<300 * Unit, 400 * Unit, 0>>,
   plane |-> [position |-> Zero3, velocity |-> Zero3, acceleration |-> Zero3],
   trailParticles |-> <<>>,
   lastEmitTime |-> 0,
   hasMoved |-> FALSE]

\* The useRef object of lines 369-380.
InitState ==
  [mouseTarget |-> Zero3,
   plane |-> [position |-> Zero3, velocity |-> Zero3, acceleration |-> Zero3],
   trailParticles |-> <<>>,
   lastEmitTime |-> 0,
   hasMoved |-> FALSE]

InitScratch ==
  [desiredVelocity |-> Zero3, steeringForce |-> Zero3, worldTailPosition |-> Zero3]

\* The closure of one effect run, before its first animate call.
NewSession ==
  [mounted |-> TRUE,
   clock |-> [running |-> FALSE, oldTime |-> 0, elapsedTime |-> 0],
   particleIndex |-> 0,
   particlePositions |-> [i \in 1..MAX_PARTICLES |-> Zero3],
   particleAlphas |-> [i \in 1..MAX_PARTICLES |-> 0],
   planeGroup |-> [position |-> Zero3, look |-> IdentityLook, matrixWorld |-> IdentityMatrix]]

Init ==
  /\ state = InitState
  /\ noise \in NoiseSeeds
  /\ instructionsVisible = TRUE
  /\ scratch = InitScratch
  /\ sessions = <<>>
  /\ rafQueue = <<>>
  /\ runQueue = <<>>
  /\ now = 0
  /\ period \in PeriodSet
  /\ moves = 0
  /\ frame = NoFrame

------------------------------------------------------------------------------
(* THREE.Clock *)

\* clock.getDelta() at time t: the first call starts the clock and returns 0.
ClockDelta(clock, t) == IF clock.running THEN t - clock.oldTime ELSE 0

\* The clock after getDelta() and getElapsedTime() at time t (lines 741-742).
ClockRead(clock, t) ==
  [running |-> TRUE, oldTime |-> t, elapsedTime |-> clock.elapsedTime + ClockDelta(clock, t)]

\* const delta = Math.min(clock.getDelta(), 0.1)
FrameDelta(clock, t) == Min(ClockDelta(clock, t), maxDeltaMs)

\* Faulty variant: no early return.
SkipFrame_Never(delta) == FALSE

\* The early return of line 743.
SkipFrame(delta) == delta = 0

------------------------------------------------------------------------------
(* The frame callback *)

\* Everything an animate call can write, as one record.
World == [state |-> state, scratch |-> scratch, sessions |-> sessions,
          rafQueue |-> rafQueue, frame |-> NoFrame]

\* The world after one call of session s's animate at time t.
animate(w, s, t) ==
  LET self == w.sessions[s]
      delta == FrameDelta(self.clock, t)
      clock == ClockRead(self.clock, t)
      elapsedTime == clock.elapsedTime
      queued == Append(w.rafQueue, s)
      \* steering
      plane0 == w.state.plane
      distance == Length(Sub(w.state.mouseTarget, plane0.position))
      desired == DesiredVelocity(plane0.position, w.state.mouseTarget, delta)
      force == SteeringForce(desired, plane0.velocity, delta)
      plane == Integrate(plane0, force)
      \* meshes
      look == IF Turns(plane.velocity)
              THEN Slerp(self.planeGroup.look, plane.velocity, delta)
              ELSE self.planeGroup.look
      \* emission
      speed == Speed(plane.velocity, delta)
      emit == ShouldEmit(w.state.hasMoved, speed, elapsedTime, w.state.lastEmitTime)
      slot == self.particleIndex + 1
      tail == TailWorld(self.planeGroup.matrixWorld)
      replaced == w.state.trailParticles[slot]
      written == EmittedParticle(replaced, tail, plane.velocity, delta)
      pool0 == IF emit
               THEN [w.state.trailParticles EXCEPT ![slot] = written]
               ELSE w.state.trailParticles
      \* particle update
      pool == [i \in 1..Len(pool0) |->
                 IF i <= MAX_PARTICLES
                 THEN UpdateParticle(pool0[i], delta, elapsedTime, noise)
                 ELSE pool0[i]]
      alphas == [i \in 1..MAX_PARTICLES |->
                   IF Alive(pool0[i]) THEN Alpha(Fade(pool[i])) ELSE 0]
      positions == [i \in 1..MAX_PARTICLES |->
                      IF Alive(pool0[i]) THEN pool[i].position ELSE self.particlePositions[i]]
      \* composer.render() refreshes the world matrix
      group == [position |-> plane.position, look |-> look,
                matrixWorld |-> [position |-> plane.position, look |-> look,
                                 scaleTenths |-> planeScaleTenths]]
  IN IF SkipFrame(delta)
     THEN [w EXCEPT !.rafQueue = queued,
                    !.sessions[s].clock = clock,
                    !.frame = [NoFrame EXCEPT !.session = s, !.elapsedTime = elapsedTime]]
     ELSE [state |-> [w.state EXCEPT !.plane = plane,
                                     !.trailParticles = pool,
                                     !.lastEmitTime = IF emit THEN elapsedTime ELSE @],
           scratch |-> [desiredVelocity |-> desired,
                        steeringForce |-> force,
                        worldTailPosition |-> IF emit THEN tail ELSE w.scratch.worldTailPosition],
           sessions |-> [w.sessions EXCEPT ![s] =
                           [mounted |-> self.mounted,
                            clock |-> clock,
                            particleIndex |-> IF emit
                                              THEN NextIndex(self.particleIndex)
                                              ELSE self.particleIndex,
                            particlePositions |-> positions,
                            particleAlphas |-> alphas,
                            planeGroup |-> group]],
           rafQueue |-> queued,
           frame |-> [session |-> s, delta |-> delta, elapsedTime |-> elapsedTime,
                      distance |-> distance, desiredSpeed |-> DesiredSpeed(distance),
                      emitted |-> emit,
                      slot |-> IF emit THEN self.particleIndex ELSE 0,
                      particle |-> IF emit THEN written ELSE NoParticle,
                      replaced |-> IF emit THEN replaced ELSE NoParticle,
                      expired |-> {i \in 1..MAX_PARTICLES :
                                     Alive(pool0[i]) /\ pool[i].life <= 0}]]

\* The variables after the world w.
Becomes(w) ==
  /\ state' = w.state
  /\ scratch' = w.scratch
  /\ sessions' = w.sessions
  /\ rafQueue' = w.rafQueue
  /\ frame' = w.frame

------------------------------------------------------------------------------
(* Effect life cycle and events *)

\* The effect body (lines 382-834): allocate the pool, take a fresh cursor,
\* clock and buffers, attach the listeners, and call animate() once.
Setup(w, seed, t) ==
  LET s == Len(w.sessions) + 1
      grown == [w EXCEPT !.state.trailParticles = @ \o Allocation(seed),
                         !.sessions = Append(@, NewSession)]
  IN animate(grown, s, t)

\* The effect cleanup (lines 836-842): listeners and canvas removed,
\* renderer and composer disposed.
Cleanup(w, s) == [w EXCEPT !.sessions[s].mounted = FALSE]

Current == Len(sessions)
Mounted == Current > 0 /\ sessions[Current].mounted
BetweenFrames == runQueue = <<>>

Mount ==
  /\ Current = 0
  /\ \E seed \in RandomSeeds : Becomes(Setup(World, seed, now))
  /\ UNCHANGED <<noise, instructionsVisible, runQueue, now, period, moves>>

\* A prop of the dependency list changes: cleanup of the old run, then the new run.
PropChange ==
  /\ Mounted
  /\ BetweenFrames
  /\ Current < MaxSessions
  /\ \E seed \in RandomSeeds : Becomes(Setup(Cleanup(World, Current), seed, now))
  /\ UNCHANGED <<noise, instructionsVisible, runQueue, now, period, moves>>

Unmount ==
  /\ Mounted
  /\ BetweenFrames
  /\ Becomes(Cleanup(World, Current))
  /\ UNCHANGED <<noise, instructionsVisible, runQueue, now, period, moves>>

\* handleMouseMove (lines 719-723) for a pointer at `target` (pixels).
handleMouseMove(target) ==
  /\ Mounted
  /\ BetweenFrames
  /\ moves < MaxMoves
  /\ moves' = moves + 1
  /\ state' = [state EXCEPT !.hasMoved = TRUE,
                            !.mouseTarget = <<target[1] * Unit, target[2] * Unit, @[3]>>]
  /\ frame' = NoFrame
  /\ UNCHANGED <<noise, instructionsVisible, scratch, sessions, rafQueue, runQueue, now, period>>

\* How many refreshes of this run are explored.
Horizon == IF moves <= 1 /\ Current <= 1 THEN MaxRefreshes ELSE BusyRefreshes

\* The display refreshes: the browser takes the registered callbacks.
Refresh ==
  /\ BetweenFrames
  /\ rafQueue # <<>>
  /\ now < Horizon * period
  /\ now' = now + period
  /\ runQueue' = rafQueue
  /\ rafQueue' = <<>>
  /\ frame' = NoFrame
  /\ UNCHANGED <<state, noise, instructionsVisible, scratch, sessions, period, moves>>

\* The next callback of the refresh runs.
Frame ==
  /\ runQueue # <<>>
  /\ Becomes(animate(World, Head(runQueue), now))
  /\ runQueue' = Tail(runQueue)
  /\ UNCHANGED <<noise, instructionsVisible, now, period, moves>>

Next ==
  \/ Mount
  \/ PropChange
  \/ Unmount
  \/ \E target \in TargetSet : handleMouseMove(target)
  \/ Refresh
  \/ Frame

Spec == Init /\ [][Next]_vars

------------------------------------------------------------------------------
(* The steering step on its own: one animate call from a drawn situation *)

\* Plane positions, plane velocities (per frame), pointer offsets from the
\* plane, and times since the previous frame, from which the step is taken.
SteerPositions == {<<0, 0, 0>>, <<1000, -400, 0>>}
SteerVelocities == {<<0, 0, 0>>, <<6, -8, 0>>, <<-600, 800, 0>>}
SteerOffsets ==
  {<<0, 0, 0>>, <<300 * Unit, 400 * Unit, 0>>, <<90 * Unit, 120 * Unit, 0>>,
   <<180 * Unit, 240 * Unit, 0>>, <<-299 * Unit, 0, 0>>, <<0, 301 * Unit, 0>>}
SteerDeltas == {1, 20, 100, 250}

\* A mounted session in the middle of a flight, its callback about to run.
InitSteer ==
  /\ \E position \in SteerPositions, velocity \in SteerVelocities, offset \in SteerOffsets :
       /\ state = [InitState EXCEPT !.hasMoved = TRUE,
                                    !.mouseTarget = Add(position, offset),
                                    !.plane.position = position,
                                    !.plane.velocity = velocity,
                                    !.trailParticles = Allocation(0)]
       /\ sessions = <<[NewSession EXCEPT
                          !.clock.running = TRUE,
                          !.planeGroup.position = position,
                          !.planeGroup.matrixWorld.position = position,
                          !.planeGroup.matrixWorld.scaleTenths = planeScaleTenths]>>
  /\ noise \in NoiseSeeds
  /\ instructionsVisible = TRUE
  /\ scratch = InitScratch
  /\ rafQueue = <<>>
  /\ runQueue = <<1>>
  /\ now \in SteerDeltas
  /\ period = now
  /\ moves = 1
  /\ frame = NoFrame

NextSteer == Frame

SpecSteer == InitSteer /\ [][NextSteer]_vars

------------------------------------------------------------------------------
(* PaperPlaneApp: drag a path, release to launch (lines 12-233) *)

\* The variables state, sessions, rafQueue, runQueue, now, period, moves and
\* frame hold this component's useRef object, effect runs, callbacks, clock
\* and event count; noise and scratch are not used by it.  Positions are in
\* length units as above; rawFlightProgress and flightSpeed are in
\* ten-thousandths.  The orientation of the plane, written by the frames and
\* read by nothing, is not represented, and the Catmull-Rom curve is
\* evaluated as the polyline through its points.

\* Bounds: pointer events dispatched in a run, display refreshes after an
\* effect run during which they are dispatched, animate calls of one flight
\* that are followed.
MaxEvents == 7
EventWindow == 2
MaxFlightCalls == 201

\* Constants of the component.
instructionDelay == 4000
minPathPoints == 5
minFlightSpeed == 50
maxFlightSpeed == 200
followPct == 5

Full == 100 * 100

\* Display refresh interval and pointer positions (pixels) of the runs
\* explored: the pointer moves along a line, one step per mousemove, and is
\* pressed where it is.
AppPeriodSet == {25}
PointerSet == {<<0, 0, 0>>, <<2, 0, 0>>, <<4, 0, 0>>}
PointerStep == 1 + 1
Pixels(p) == <<p[1] * Unit, p[2] * Unit, p[3] * Unit>>

\* Math.min, Math.max and + of JavaScript: NaN in, NaN out.
MinJS(a, b) == IF a = NaN \/ b = NaN THEN NaN ELSE Min(a, b)
MaxJS(a, b) == IF a = NaN \/ b = NaN THEN NaN ELSE Max(a, b)
AddJS(a, b) == IF a = NaN \/ b = NaN THEN NaN ELSE a + b

\* Line 151: max(0.005, min(0.02, (dragDistance / 200) / (dragDuration * 50))),
\* for a distance in length units and a duration in ms.
FlightSpeed(dragDistance, dragDuration) ==
  MaxJS(minFlightSpeed, MinJS(maxFlightSpeed, DivT(dragDistance * 1000, Unit * dragDuration)))

\* Line 166: 1 - (1 - rawFlightProgress)^4.
EaseOutQuart(raw) ==
  LET q == Full - raw
      q2 == (q * q) \div Full
  IN Full - (q2 * q2) \div Full

\* flightPathCurve.getPointAt(u), along the polyline through the points.
GetPointAt(curve, u) ==
  LET n == Len(curve)
      scaled == u * (n - 1)
      i == scaled \div Full
      f == scaled % Full
  IN IF i >= n - 1 THEN curve[n]
     ELSE Add(curve[i + 1], ScaleRat(Sub(curve[i + 2], curve[i + 1]), f, Full))

NoCurve == <<>>

\* The useRef object of lines 17-26.
InitAppState ==
  [isDragging |-> FALSE,
   isFlying |-> FALSE,
   dragStartTime |-> 0,
   mousePosition |-> Zero3,
   pathPoints |-> <<>>,
   flightPathCurve |-> NoCurve,
   rawFlightProgress |-> 0,
   flightSpeed |-> 0]

\* The closure of one effect run (lines 28-96): the value of
\* instructionsVisible it was rendered with, its timer, its line and plane.
NewAppSession(visible, t) ==
  [mounted |-> TRUE,
   instructionsVisible |-> visible,
   instructionTimeout |-> [pending |-> TRUE, due |-> t + instructionDelay],
   flightPathLine |-> [visible |-> TRUE, points |-> <<>>],
   plane |-> [position |-> Zero3]]

\* The event handled and the locals of the animate call made by the latest
\* step, and the animate calls made with isFlying set since the latest launch.
NoAppFrame ==
  [event |-> "", session |-> 0, flying |-> FALSE, ended |-> FALSE, threw |-> FALSE,
   flown |-> 0]
Quiet(f) == [NoAppFrame EXCEPT !.flown = f.flown]

AppWorld ==
  [state |-> state, sessions |-> sessions, rafQueue |-> rafQueue,
   frame |-> Quiet(frame), instructionsVisible |-> instructionsVisible]

\* Lines 170-171: the line of this effect run is shown again and emptied.
LineAfterFlight(line) == [visible |-> TRUE, points |-> <<>>]

\* The world after one call of session s's animate (lines 161-209).
animateApp(w, s) ==
  LET self == w.sessions[s]
      st == w.state
      queued == Append(w.rafQueue, s)
      raw == AddJS(st.rawFlightProgress, st.flightSpeed)
      ended == raw # NaN /\ raw >= Full
      threw == raw = NaN
      velocity == ScaleRat(Sub(st.mousePosition, self.plane.position), followPct, 100)
      called == [event |-> w.frame.event, session |-> s, flying |-> st.isFlying, ended |-> st.isFlying /\ ended,
                 threw |-> st.isFlying /\ threw,
                 flown |-> IF st.isFlying THEN w.frame.flown + 1 ELSE w.frame.flown]
  IN IF st.isFlying
     THEN IF ended
          THEN [w EXCEPT !.rafQueue = queued,
                         !.state.rawFlightProgress = raw,
                         !.state.isFlying = FALSE,
                         !.sessions[s].flightPathLine = LineAfterFlight(@),
                         !.frame = called]
          ELSE IF threw
          \* getPointAt(NaN) reads points[NaN].x: the call ends at line 173
          THEN [w EXCEPT !.rafQueue = queued,
                         !.state.rawFlightProgress = raw,
                         !.frame = called]
          ELSE [w EXCEPT !.rafQueue = queued,
                         !.state.rawFlightProgress = raw,
                         !.sessions[s].plane.position =
                             GetPointAt(st.flightPathCurve, EaseOutQuart(raw)),
                         !.frame = called]
     ELSE [w EXCEPT !.rafQueue = queued,
                    !.sessions[s].plane.position = Add(@, velocity),
                    !.frame = called]

\* The effect body (lines 28-211) run with the current instructionsVisible.
SetupApp(w, t) ==
  LET s == Len(w.sessions) + 1
      grown == [w EXCEPT !.sessions = Append(@, NewAppSession(w.instructionsVisible, t))]
  IN animateApp(grown, s)

\* The effect cleanup (lines 214-222).
CleanupApp(w) ==
  [w EXCEPT !.sessions[Len(w.sessions)].mounted = FALSE,
            !.sessions[Len(w.sessions)].instructionTimeout.pending = FALSE]

\* hideInstructions (lines 91-95), called by the effect run s.
hideInstructions(w, s) ==
  IF w.sessions[s].instructionsVisible THEN [w EXCEPT !.instructionsVisible = FALSE] ELSE w

\* React after a handler: instructionsVisible is the effect's only
\* dependency (line 223); when it differs from the value the mounted effect
\* was run with, the cleanup and the effect body run.
Rendered(w, t) ==
  IF w.instructionsVisible # w.sessions[Len(w.sessions)].instructionsVisible
  THEN SetupApp(CleanupApp(w), t)
  ELSE w

\* updateMousePosition (lines 107-110).
updateMousePosition(w, p) ==
  [w EXCEPT !.state.mousePosition = <<p[1] * Unit, p[2] * Unit, @[3]>>]

BecomesApp(w) ==
  /\ state' = w.state
  /\ sessions' = w.sessions
  /\ rafQueue' = w.rafQueue
  /\ frame' = w.frame
  /\ instructionsVisible' = w.instructionsVisible

\* Pointer events reach the listeners of the mounted effect run, between
\* frames, within the event window of that run.
Listening ==
  /\ Mounted
  /\ BetweenFrames
  /\ moves < MaxEvents
  /\ now < sessions[Current].instructionTimeout.due - instructionDelay + EventWindow * period

MountApp ==
  /\ Current = 0
  /\ BecomesApp(SetupApp(AppWorld, now))
  /\ UNCHANGED <<noise, scratch, runQueue, now, period, moves>>

\* The timer of the mounted effect run is due.
TimerDue ==
  /\ Mounted
  /\ sessions[Current].instructionTimeout.pending
  /\ now >= sessions[Current].instructionTimeout.due

\* The timer of line 96 fires.
instructionTimeout ==
  /\ BetweenFrames
  /\ TimerDue
  /\ LET fired == [AppWorld EXCEPT !.sessions[Current].instructionTimeout.pending = FALSE]
     IN BecomesApp(Rendered(hideInstructions(fired, Current), now))
  /\ UNCHANGED <<noise, scratch, runQueue, now, period, moves>>

\* Faulty variant: a mousedown during a flight starts a drag.
Ignored_Never(st) == FALSE
\* The early return of line 115.
Ignored(st) == st.isFlying

\* mousedown (lines 112-120).
handleInteractionStart(p) ==
  /\ Listening
  /\ Pixels(p) = state.mousePosition
  /\ moves' = moves + 1
  /\ LET heard == [AppWorld EXCEPT !.frame.event = "mousedown"]
         w == updateMousePosition(hideInstructions(heard, Current), p)
         start == [w EXCEPT !.state.isDragging = TRUE,
                            !.state.pathPoints = <<w.state.mousePosition>>,
                            !.state.dragStartTime = now,
                            !.sessions[Current].flightPathLine.points = <<>>]
     IN BecomesApp(Rendered(IF Ignored(w.state) THEN w ELSE start, now))
  /\ UNCHANGED <<noise, scratch, runQueue, now, period>>

\* mousemove (lines 122-136); the pointer has moved by a step.
handleInteractionMove(p) ==
  /\ Listening
  /\ Length(Sub(Pixels(p), state.mousePosition)) = PointerStep * Unit
  /\ moves' = moves + 1
  /\ LET w == updateMousePosition([AppWorld EXCEPT !.frame.event = "mousemove"], p)
         points == Append(w.state.pathPoints, w.state.mousePosition)
     IN BecomesApp(IF w.state.isDragging
                   THEN [w EXCEPT !.state.pathPoints = points,
                                  !.sessions[Current].flightPathLine.points = points]
                   ELSE w)
  /\ UNCHANGED <<noise, scratch, runQueue, now, period>>

\* Faulty variant: any drag launches.
Launches_Always(st) == TRUE
\* The test of line 139, negated.
Launches(st) == st.isDragging /\ Len(st.pathPoints) >= minPathPoints

\* mouseup (lines 138-153).
handleInteractionEnd ==
  /\ Listening
  /\ moves' = moves + 1
  /\ LET w == [AppWorld EXCEPT !.frame.event = "mouseup"]
         st == w.state
         dragDuration == now - st.dragStartTime
         dragDistance == Length(Sub(st.pathPoints[1], st.pathPoints[Len(st.pathPoints)]))
     IN BecomesApp(
          IF ~Launches(st)
          THEN [w EXCEPT !.state.isDragging = FALSE,
                         !.state.pathPoints = <<>>,
                         !.sessions[Current].flightPathLine.points = <<>>]
          ELSE [w EXCEPT !.state.isDragging = FALSE,
                         !.state.isFlying = TRUE,
                         !.state.flightPathCurve = st.pathPoints,
                         !.state.rawFlightProgress = 0,
                         !.state.flightSpeed = FlightSpeed(dragDistance, dragDuration),
                         !.sessions[Current].flightPathLine.visible = FALSE,
                         !.frame.flown = 0])
  /\ UNCHANGED <<noise, scratch, runQueue, now, period>>

\* How long a run is followed: a flight for MaxFlightCalls animate calls,
\* the wait for the timer, without pointer events, until it fires, anything
\* else to the end of the event window.
Followed ==
  \/ state.isFlying /\ frame.flown < MaxFlightCalls
  \/ moves = 0 /\ instructionsVisible
  \/ now < sessions[Current].instructionTimeout.due - instructionDelay + EventWindow * period

\* The display refreshes: the browser takes the registered callbacks, after
\* the timers that are due.
RefreshApp ==
  /\ BetweenFrames
  /\ rafQueue # <<>>
  /\ ~TimerDue
  /\ Followed
  /\ now' = now + period
  /\ runQueue' = rafQueue
  /\ rafQueue' = <<>>
  /\ frame' = Quiet(frame)
  /\ UNCHANGED <<state, noise, scratch, sessions, period, moves, instructionsVisible>>

\* The next callback of the refresh runs.
FrameApp ==
  /\ runQueue # <<>>
  /\ BecomesApp(animateApp(AppWorld, Head(runQueue)))
  /\ runQueue' = Tail(runQueue)
  /\ UNCHANGED <<noise, scratch, now, period, moves>>

InitApp ==
  /\ state = InitAppState
  /\ noise \in NoiseSeeds
  /\ instructionsVisible = TRUE
  /\ scratch = InitScratch
  /\ sessions = <<>>
  /\ rafQueue = <<>>
  /\ runQueue = <<>>
  /\ now = 0
  /\ period \in AppPeriodSet
  /\ moves = 0
  /\ frame = NoAppFrame

NextApp ==
  \/ MountApp
  \/ instructionTimeout
  \/ \E p \in PointerSet : handleInteractionStart(p)
  \/ \E p \in PointerSet : handleInteractionMove(p)
  \/ handleInteractionEnd
  \/ RefreshApp
  \/ FrameApp

SpecApp == InitApp /\ [][NextApp]_vars

------------------------------------------------------------------------------
(* One slot followed round the ring at the capacity of the source *)

\* The frame loop of one effect run with the pool at its real capacity, seen
\* from slot 0: of animate, the clock, the emission test, the cursor and the
\* ageing of that slot are kept; state.trailParticles holds the one slot
\* followed.  The plane cruises: the same displacement every frame.
RingCapacity == 1000

\* Display refresh intervals (ms), displacements per frame and life times of
\* the runs explored.
RingPeriodSet == {2, 4, 9, 17, 250}
RingVelocities == {<<100 * Unit, 0, 0>>, <<2 * Unit, 0, 0>>}
RingLifeSet == {minLifeMs, minLifeMs + lifeSpanMs - 1}

\* Line 803 at the real capacity.
RingNextIndex(particleIndex) == (particleIndex + 1) % RingCapacity

\* The state after the frame of a running session that emitted into slot 0.
InitRing ==
  /\ period \in RingPeriodSet
  /\ now = period
  /\ \E velocity \in RingVelocities, life \in RingLifeSet :
       state = [InitState EXCEPT
                  !.hasMoved = TRUE,
                  !.plane.velocity = velocity,
                  !.lastEmitTime = period,
                  !.trailParticles =
                     <<[NoParticle EXCEPT !.maxLife = life,
                                          !.life = life - Min(period, maxDeltaMs)]>>]
  /\ sessions = <<[NewSession EXCEPT
                     !.clock = [running |-> TRUE, oldTime |-> period, elapsedTime |-> period],
                     !.particleIndex = 1]>>
  /\ noise \in NoiseSeeds
  /\ instructionsVisible = TRUE
  /\ scratch = InitScratch
  /\ rafQueue = <<1>>
  /\ runQueue = <<>>
  /\ moves = 1
  /\ frame = NoFrame

\* The cursor has come round: the latest frame emitted into slot 0.
CameRound == frame.emitted /\ frame.slot = 0

\* The display refreshes and the callback runs (lines 739-743, 793-804,
\* 811-814 for slot 0).
FrameRing ==
  /\ ~CameRound
  /\ LET self == sessions[1]
         t == now + period
         delta == FrameDelta(self.clock, t)
         clock == ClockRead(self.clock, t)
         elapsedTime == clock.elapsedTime
         speed == Speed(state.plane.velocity, delta)
         emit == ShouldEmit(state.hasMoved, speed, elapsedTime, state.lastEmitTime)
         here == emit /\ self.particleIndex = 0
         before == state.trailParticles[1]
         written == [before EXCEPT !.life = before.maxLife]
         aged == UpdateParticle(IF here THEN written ELSE before, delta, elapsedTime, noise)
     IN /\ now' = t
        /\ state' = [state EXCEPT
                       !.lastEmitTime = IF emit THEN elapsedTime ELSE @,
                       !.trailParticles = <<[before EXCEPT !.life = aged.life]>>]
        /\ sessions' = [sessions EXCEPT
                          ![1].clock = clock,
                          ![1].particleIndex = IF emit THEN RingNextIndex(@) ELSE @]
        /\ frame' = [NoFrame EXCEPT
                       !.session = 1, !.delta = delta, !.elapsedTime = elapsedTime,
                       !.emitted = emit,
                       !.slot = IF emit THEN self.particleIndex ELSE 0,
                       !.particle = IF here THEN written ELSE NoParticle,
                       !.replaced = IF here THEN before ELSE NoParticle]
  /\ UNCHANGED <<noise, instructionsVisible, scratch, rafQueue, runQueue, period, moves>>

NextRing == FrameRing

SpecRing == InitRing /\ [][NextRing]_vars

------------------------------------------------------------------------------
(* Properties *)

Pool == state.trailParticles
Slots == 1..Len(Pool)
Sessions == 1..Len(sessions)

\* The latest step made an animate call (with a positive delta).
Called == frame.session # 0
Ran == Called /\ frame.delta > 0

\* C1: while no pointer-move event has been received (hasMoved false) no
\* particle has been emitted: no animate call emits, every slot's life is
\* still 0, every write cursor is still 0 and lastEmitTime is still 0.
C1_NoEmissionWhileIdle ==
  ~state.hasMoved =>
    /\ ~frame.emitted
    /\ \A i \in Slots : Pool[i].life = 0
    /\ \A s \in Sessions : sessions[s].particleIndex = 0
    /\ state.lastEmitTime = 0

\* Frames with positive deltas have run and the pointer has not moved yet.
C1_IdleFrames ==
  /\ ~state.hasMoved
  /\ Ran
  /\ sessions[frame.session].clock.elapsedTime >= 3 * frame.delta

\* C2: the trail pool never holds more than MAX_PARTICLES particle records.
C2_PoolWithinCapacity == Len(Pool) <= MAX_PARTICLES

\* C3: from one step to the next a slot's life does not increase unless an
\* emission of that step targets the slot; the emission writes exactly the
\* slot's maxLife, from which the update of the same frame takes its delta.
C3_LifeRaisedOnlyByEmission ==
  [][\A i \in Slots :
       LET old == Pool[i]
           new == state'.trailParticles[i]
           hit == frame'.emitted /\ frame'.slot + 1 = i
       IN /\ new.maxLife = old.maxLife
          /\ ~hit => new.life <= old.life
          /\ hit => /\ frame'.particle.life = old.maxLife
                    /\ new.life = old.maxLife - frame'.delta]_vars

\* An emission while another particle has been ageing for more than a frame.
C3_EmissionBesideAgedParticle ==
  /\ frame.emitted
  /\ \E j \in Slots : /\ j # frame.slot + 1
                      /\ Pool[j].life > 0
                      /\ Pool[j].life < Pool[j].maxLife - frame.delta

\* C4 as claimed: every slot has 0 <= life <= maxLife.
C4_LifeWithinRange == \A i \in Slots : Pool[i].life >= 0 /\ Pool[i].life <= Pool[i].maxLife

\* C4 amended: every slot has -0.1 < life <= maxLife; the last decrement of a
\* particle may leave its life negative by less than one clamped delta.
C4_LifeAboveMinusDelta ==
  \A i \in Slots : Pool[i].life > -maxDeltaMs /\ Pool[i].life <= Pool[i].maxLife

\* A particle whose last decrement left its life negative.
C4_NegativeLife == \E i \in Slots : Pool[i].life < 0

\* C5: every cursor is in 0..MAX_PARTICLES-1; an emission writes the slot at
\* the cursor of the emitting session, whatever was there, leaves every other
\* slot to the ordinary update of the frame, and advances that cursor, and no
\* other, by one modulo MAX_PARTICLES.
C5_RingBufferOrder ==
  [][/\ \A s \in 1..Len(sessions') : sessions'[s].particleIndex \in 0..(MAX_PARTICLES - 1)
     /\ frame'.emitted =>
          LET s == frame'.session
              at == frame'.slot + 1
          IN /\ s \in Sessions
             /\ frame'.slot = sessions[s].particleIndex
             /\ frame'.replaced = Pool[at]
             /\ sessions'[s].particleIndex = (frame'.slot + 1) % MAX_PARTICLES
             /\ \A r \in Sessions \ {s} : sessions'[r].particleIndex = sessions[r].particleIndex
             /\ state'.trailParticles[at] =
                  UpdateParticle(frame'.particle, frame'.delta, frame'.elapsedTime, noise)
             /\ \A j \in Slots \ {at} :
                  state'.trailParticles[j] =
                    IF j <= MAX_PARTICLES
                    THEN UpdateParticle(Pool[j], frame'.delta, frame'.elapsedTime, noise)
                    ELSE Pool[j]]_vars

\* The cursor has wrapped around and the emission replaced a live particle.
C5_OverwroteLiveParticle ==
  /\ frame.emitted
  /\ frame.slot = 0
  /\ Alive(frame.replaced)
  /\ sessions[frame.session].particleIndex = 1

\* C6: no animate call is made by a session whose cleanup has run.
C6_NoFrameAfterCleanup == Called => sessions[frame.session].mounted

\* C7: an animate call whose delta is 0 leaves the plane, every particle,
\* lastEmitTime, every write cursor and every output buffer as they were (for
\* the first call of a session: as the effect body has just created them).
C7_ZeroDeltaIsNoOp ==
  [][(frame'.session # 0 /\ frame'.delta = 0) =>
       /\ state'.plane = state.plane
       /\ state'.lastEmitTime = state.lastEmitTime
       /\ \A i \in Slots : state'.trailParticles[i] = Pool[i]
       /\ \A s \in 1..Len(sessions') :
            LET was == IF s \in Sessions THEN sessions[s] ELSE NewSession
            IN /\ sessions'[s].particleIndex = was.particleIndex
               /\ sessions'[s].particlePositions = was.particlePositions
               /\ sessions'[s].particleAlphas = was.particleAlphas]_vars

\* A zero-delta call made while the plane flies and a particle is alive.
C7_ZeroDeltaInFlight ==
  /\ Called
  /\ frame.delta = 0
  /\ state.plane.velocity # Zero3
  /\ \E i \in Slots : Alive(Pool[i])

\* C8: a steering step with a positive delta and the target on the plane's
\* position leaves the desired velocity zero and the steering force equal to
\* the reversed velocity clamped to the length maxForce * delta.
C8_SteeringAtTarget ==
  [][(frame'.session # 0 /\ frame'.delta > 0 /\ state.mouseTarget = state.plane.position) =>
       /\ scratch'.desiredVelocity = Zero3
       /\ scratch'.steeringForce =
            ClampLength(Sub(Zero3, state.plane.velocity),
                        (maxForce * Unit * frame'.delta) \div 1000)]_vars

\* Such a step taken by a moving plane.
C8_AtTargetWhileMoving ==
  /\ Ran
  /\ frame.distance = 0
  /\ scratch.desiredVelocity = Zero3
  /\ scratch.steeringForce # Zero3

\* C9: the desired speed of a steering step is maxSpeed when the target is at
\* least slowingRadius away and maxSpeed * distance / slowingRadius otherwise:
\* 800 at distance 500 and 400 at distance 150; the desired velocity points to
\* the target with that speed times delta as its length.
C9_DesiredSpeedByDistance ==
  [][(frame'.session # 0 /\ frame'.delta > 0) =>
       LET toTarget == Sub(state.mouseTarget, state.plane.position)
           distance == Length(toTarget)
           speed == IF distance >= slowingRadius * Unit
                    THEN maxSpeed * Unit
                    ELSE (maxSpeed * Unit * distance) \div (slowingRadius * Unit)
       IN /\ frame'.distance = distance
          /\ frame'.desiredSpeed = speed
          /\ distance = 500 * Unit => frame'.desiredSpeed = 800 * Unit
          /\ distance = 150 * Unit => frame'.desiredSpeed = 400 * Unit
          /\ scratch'.desiredVelocity =
               NormalizeScaled(toTarget, (speed * frame'.delta) \div 1000)]_vars

\* The step of the scenario at distance 150.
C9_HalfSpeedAtHalfRadius ==
  /\ Ran
  /\ frame.distance = 150 * Unit
  /\ frame.desiredSpeed = 400 * Unit

\* C10 as claimed: the stored velocity is the plane's velocity reversed and
\* scaled by 0.1, whatever the delta.
C10_ReversedTenthOfVelocity ==
  frame.emitted => frame.particle.velocity = ScaleRat(state.plane.velocity, -1, 10)

\* C10 amended: the stored velocity times delta (in seconds) is the plane's
\* velocity reversed and scaled by 0.1, i.e. the stored velocity is the plane's
\* velocity times -0.1 / delta.
C10_ReversedTenthPerSecond ==
  frame.emitted =>
    \A k \in 1..3 : frame.particle.velocity[k] * frame.delta = -100 * state.plane.velocity[k]

\* An emission in a frame shorter than the clamp.
C10_EmissionInShortFrame ==
  /\ frame.emitted
  /\ frame.delta < maxDeltaMs
  /\ state.plane.velocity # Zero3

\* C11: the emission of a frame precedes the ageing of the same frame, and a
\* particle emitted in a frame outlives it: at the end of the frame the slot
\* written holds maxLife minus the frame's delta, which is positive, and its
\* output alpha is positive.
C11_EmittedOutlivesFrame ==
  frame.emitted =>
    LET p == Pool[frame.slot + 1]
    IN /\ frame.particle.life = p.maxLife
       /\ p.life = p.maxLife - frame.delta
       /\ p.life > 0
       /\ sessions[frame.session].particleAlphas[frame.slot + 1] > 0

\* An emission into a slot of the shortest life time in a frame of the longest delta.
C11_ShortestLifeLongestDelta ==
  /\ frame.emitted
  /\ frame.delta = maxDeltaMs
  /\ Pool[frame.slot + 1].maxLife = minLifeMs

\* C12: a particle emitted in a frame is placed at the tail offset transformed
\* by the pose of the same frame (the pose the frame's render shows).
C12_TailAtCurrentPose ==
  frame.emitted =>
    frame.particle.position = TailWorld(sessions[frame.session].planeGroup.matrixWorld)

\* C13 as claimed: a particle whose decrement gives a life <= 0 gets alpha 0
\* and its position and velocity are left unchanged by that frame; a slot
\* whose life is <= 0 is left unchanged by every frame that does not emit
\* into it.
C13_NoDisplacementOnExpiry ==
  [][(frame'.session # 0 /\ frame'.delta > 0) =>
       \A i \in 1..MAX_PARTICLES :
         LET old == IF frame'.emitted /\ frame'.slot + 1 = i THEN frame'.particle ELSE Pool[i]
             new == state'.trailParticles[i]
             alpha == sessions'[frame'.session].particleAlphas[i]
         IN /\ (old.life > 0 /\ old.life - frame'.delta <= 0) =>
                 /\ alpha = 0
                 /\ new.position = old.position
                 /\ new.velocity = old.velocity
            /\ old.life <= 0 => (new = old /\ alpha = 0)]_vars

\* C13 amended: a particle whose decrement gives a life <= 0 gets alpha 0 in
\* that frame but is still moved by it: noise force, displacement and damping
\* of the frame are applied and the new position is written to the output
\* buffer; from the next frame on the slot, with its life <= 0, is skipped:
\* record and output position unchanged, alpha 0, until it is emitted into.
C13_LastDisplacementOnExpiry ==
  [][(frame'.session # 0 /\ frame'.delta > 0) =>
       \A i \in 1..MAX_PARTICLES :
         LET old == IF frame'.emitted /\ frame'.slot + 1 = i THEN frame'.particle ELSE Pool[i]
             new == state'.trailParticles[i]
             self == sessions'[frame'.session]
         IN /\ (old.life > 0 /\ old.life - frame'.delta <= 0) =>
                 /\ i \in frame'.expired
                 /\ self.particleAlphas[i] = 0
                 /\ new = AgeParticle(old, frame'.delta, frame'.elapsedTime, noise)
                 /\ self.particlePositions[i] = new.position
            /\ old.life <= 0 =>
                 /\ i \notin frame'.expired
                 /\ new = old
                 /\ self.particleAlphas[i] = 0
                 /\ self.particlePositions[i] = sessions[frame'.session].particlePositions[i]]_vars

\* A frame in which a moving particle's life ran out.
C13_ExpiredWhileMoving ==
  /\ Ran
  /\ \E i \in frame.expired :
       /\ Pool[i].life <= 0
       /\ Pool[i].velocity # Zero3
       /\ sessions[frame.session].particleAlphas[i] = 0

\* C14: while no pointer-move event has been received the plane keeps its
\* initial pose: position at the origin, velocity and acceleration zero, the
\* orientation of every session's plane unchanged; the steering step runs on
\* each of these frames all the same, with the target on the plane and hence
\* a zero desired velocity and a zero force.
C14_IdlePoseHolds ==
  ~state.hasMoved =>
    /\ state.plane = [position |-> Zero3, velocity |-> Zero3, acceleration |-> Zero3]
    /\ \A s \in Sessions :
         /\ sessions[s].planeGroup.position = Zero3
         /\ sessions[s].planeGroup.look = IdentityLook
    /\ Ran =>
         /\ frame.distance = 0
         /\ frame.desiredSpeed = 0
         /\ scratch.desiredVelocity = Zero3
         /\ scratch.steeringForce = Zero3

\* An idle frame that steered and rendered, in the second run of the effect.
C14_IdleSteeringStep ==
  /\ ~state.hasMoved
  /\ Ran
  /\ frame.session = 2
  /\ sessions[2].planeGroup.matrixWorld.scaleTenths = planeScaleTenths

\* C15: a launched flight is over after at most 200 animate calls.
C15_FlightEndsWithin200Calls == state.isFlying => frame.flown < 200

\* C16: isDragging and isFlying are never both set; a mousedown during a
\* flight leaves isDragging, the path and the start time as they are.
C16_NeverDraggingWhileFlying ==
  [][/\ ~(state'.isDragging /\ state'.isFlying)
     /\ (frame'.event = "mousedown" /\ state.isFlying) =>
          /\ state'.isFlying
          /\ ~state'.isDragging
          /\ state'.pathPoints = state.pathPoints
          /\ state'.dragStartTime = state.dragStartTime]_vars

\* A mousedown received during a flight.
C16_MouseDownInFlight ==
  /\ frame.event = "mousedown"
  /\ state.isFlying
  /\ state.rawFlightProgress # 0

\* C17 as claimed: a flight starts only at a mouseup that ends a drag of at
\* least 5 points; any other mouseup clears isDragging and the path and
\* leaves isFlying false; an animate call made while flying has a curve of at
\* least 5 points.
C17_OtherMouseUpLeavesNotFlying ==
  [][/\ (state'.isFlying /\ ~state.isFlying) =>
          /\ frame'.event = "mouseup"
          /\ state.isDragging
          /\ Len(state.pathPoints) >= minPathPoints
          /\ state'.flightPathCurve = state.pathPoints
     /\ (frame'.event = "mouseup"
           /\ ~(state.isDragging /\ Len(state.pathPoints) >= minPathPoints)) =>
          /\ ~state'.isDragging
          /\ state'.pathPoints = <<>>
          /\ ~state'.isFlying
     /\ frame'.flying =>
          /\ state.flightPathCurve # NoCurve
          /\ Len(state.flightPathCurve) >= minPathPoints]_vars

\* C17 amended: as above, but any other mouseup leaves isFlying as it is: it
\* starts no flight and does not end one that is in progress, whose curve it
\* leaves alone.
C17_OtherMouseUpStartsNoFlight ==
  [][/\ (state'.isFlying /\ ~state.isFlying) =>
          /\ frame'.event = "mouseup"
          /\ state.isDragging
          /\ Len(state.pathPoints) >= minPathPoints
          /\ state'.flightPathCurve = state.pathPoints
     /\ (frame'.event = "mouseup"
           /\ ~(state.isDragging /\ Len(state.pathPoints) >= minPathPoints)) =>
          /\ ~state'.isDragging
          /\ state'.pathPoints = <<>>
          /\ state'.isFlying = state.isFlying
          /\ state'.flightPathCurve = state.flightPathCurve
          /\ sessions'[Current].flightPathLine.points = <<>>
     /\ frame'.flying =>
          /\ state.flightPathCurve # NoCurve
          /\ Len(state.flightPathCurve) >= minPathPoints]_vars

\* A mouseup received during a flight.
C17_MouseUpInFlight ==
  /\ frame.event = "mouseup"
  /\ state.isFlying
  /\ state.rawFlightProgress # 0
  /\ state.pathPoints = <<>>

\* C18: while no flight is in progress the flight path line of the mounted
\* effect run is visible.
C18_LineVisibleWhenNotFlying ==
  (Mounted /\ ~state.isFlying) => sessions[Current].flightPathLine.visible

\* C19: in the frame loop of one effect run, with the pool at its capacity of
\* 1000, the slot at the write cursor holds no live particle when it is
\* emitted into: while the particle of slot 0 is alive the cursor has not
\* come round to it, consecutive emissions being more than 1/120 s apart.
C19_CursorFindsDeadSlot ==
  /\ CameRound => ~Alive(frame.replaced)
  /\ Alive(state.trailParticles[1]) => sessions[1].particleIndex # 0
  /\ (frame.emitted /\ ~CameRound) =>
       (state.lastEmitTime = frame.elapsedTime
          /\ frame.slot * 1000 < 120 * (frame.elapsedTime - period))

\* The cursor has come round to slot 0 on a 500 Hz display, long after its
\* particle of the longest life time ran out.
C19_CameRoundAtHighRate ==
  /\ CameRound
  /\ period = 2
  /\ frame.replaced.maxLife = minLifeMs + lifeSpanMs - 1
  /\ frame.replaced.life <= 0

====
